---- MODULE Spec2Model ----
(***************************************************************************)
(* The `graph` REST resource of the cis girder plugin                      *)
(* (server/rest/graph.py): the CRUD handlers over the stored graphs, and   *)
(* the convert / execute pipeline that stages a graph in a temporary file. *)
(***************************************************************************)
EXTENDS Integers, Sequences, FiniteSets, TLC

VARIABLES
    graphs,     \* the graph collection: _id -> stored document
    nextId,     \* the next _id the storage layer assigns (never reused)
    last,       \* the CRUD request being answered and its response (Idle: none)
    procs,      \* the convert / execute requests in flight, one per worker
    files,      \* the temporary directory: file name -> file content
    execCalls   \* the calls made to execGraph: <<worker, yaml text, username>>

vars == <<graphs, nextId, last, procs, files, execCalls>>

-----------------------------------------------------------------------------
(* Bounds *)

MaxGraphs == 2
MaxRequests == 2

-----------------------------------------------------------------------------
(* Users, ids and request bodies *)

Absent == "absent"
Anon == "anon"
Users == {"alice", "root"}
Callers == Users \cup {Anon}
UnknownUserId == "ghost"

IsAdmin(user) == user = "root"

GraphIds == 1..MaxGraphs

Names == {"n1", "n2"}
Contents == {"c1", "c2"}
PublicVals == {"true", "false"}

\* The (name, content) pairs a JSON body carries; either key may be missing.
NameContentPairs ==
    {<<"n1", "c1">>, <<"n2", "c2">>, <<Absent, "c1">>, <<"n1", Absent>>}

Bodies ==
    {[name |-> nc[1], content |-> nc[2], public |-> p] :
        nc \in NameContentPairs, p \in PublicVals \cup {Absent}}

NoBody == [name |-> Absent, content |-> Absent, public |-> Absent]

\* Python: `key in graph`
HasKey(graph, key) ==
    CASE key = "name" -> graph.name # Absent
      [] key = "content" -> graph.content # Absent
      [] key = "public" -> graph.public # Absent

\* Python truth value of a JSON boolean
Truthy(v) == v = "true"

-----------------------------------------------------------------------------
(* HTTP status codes and messages *)

StatusOk == 200
StatusInvalid == 400
StatusUnauthenticated == 401
StatusForbidden == 403
StatusServerError == 500

MsgNone == ""
MsgInvalidId == "Invalid id"
MsgLogin == "You must be logged in."
MsgAccessDenied == "Access denied"
MsgNotAuthorizedPublic == "Not authorized to create public graphs"
MsgKeyError == "KeyError"

-----------------------------------------------------------------------------
(* The framework's access control *)

AccessNone == -1
AccessRead == 0
AccessWrite == 1
AccessAdmin == 2

\* The level the document's access list grants the user: the creator is
\* granted ADMIN when the graph is created, and no route changes the list.
UserAccessLevel(doc, user) ==
    IF user = doc.creatorId THEN AccessAdmin ELSE AccessNone

\* AccessControlledModel.hasAccess
HasAccess(doc, user, level) ==
    IF user = Anon
    THEN level = AccessRead /\ doc.public = "true"
    ELSE \/ IsAdmin(user)
         \/ level <= AccessRead /\ doc.public = "true"
         \/ UserAccessLevel(doc, user) >= level

\* modelParam: load the document by id; with force the access check is
\* skipped, otherwise the user needs `level` on the document.
LoadStatus(id, user, level, force) ==
    IF id \notin DOMAIN graphs THEN StatusInvalid
    ELSE IF force \/ HasAccess(graphs[id], user, level) THEN StatusOk
    ELSE IF user = Anon THEN StatusUnauthenticated
    ELSE StatusForbidden

LoadMsg(status) ==
    CASE status = StatusOk -> MsgNone
      [] status = StatusInvalid -> MsgInvalidId
      [] status = StatusUnauthenticated -> MsgLogin
      [] OTHER -> MsgAccessDenied

-----------------------------------------------------------------------------
(* Requests and responses *)

Idle ==
    [op |-> "none", user |-> Anon, id |-> 0, body |-> NoBody,
     userId |-> Absent, text |-> Absent,
     status |-> 0, msg |-> MsgNone, result |-> {}]

Response(op, user, id, body, userId, text, status, msg, result) ==
    [op |-> op, user |-> user, id |-> id, body |-> body,
     userId |-> userId, text |-> text,
     status |-> status, msg |-> msg, result |-> result]

Outcome(newGraphs, newNextId, status, msg, result) ==
    [graphs |-> newGraphs, nextId |-> newNextId,
     status |-> status, msg |-> msg, result |-> result]

Failure(status, msg) == Outcome(graphs, nextId, status, msg, {})

-----------------------------------------------------------------------------
(* The storage model of the graph collection (server/models/graph.py) *)

\* GraphModel.list: the graphs the current user may read, of one creator
\* when a user is given.
ModelList(user, currentUser) ==
    {graphs[i] : i \in {j \in DOMAIN graphs :
        /\ user = Absent \/ graphs[j].creatorId = user
        /\ HasAccess(graphs[j], currentUser, AccessRead)}}

\* GraphModel.createGraph: the new document, tagged with its creator; the
\* public flag is taken from the body only for an administrator.
ModelCreateGraph(graph, creator) ==
    [id |-> nextId,
     name |-> graph.name,
     content |-> graph.content,
     creatorId |-> creator,
     public |-> IF HasKey(graph, "public") /\ IsAdmin(creator)
                THEN graph.public ELSE "false"]

\* GraphModel.updateGraph: saves the document under its _id.
ModelUpdateGraph(graphObj) ==
    [i \in DOMAIN graphs |-> IF i = graphObj.id THEN graphObj ELSE graphs[i]]

\* Model.remove
ModelRemove(graphObj) ==
    [i \in DOMAIN graphs \ {graphObj.id} |-> graphs[i]]

\* filtermodel(model='graph', plugin='cis'): the response carries the
\* fields the model exposes at the levels the user has on the document;
\* the documented fields are exposed at READ.
Hidden == "hidden"

FilterModel(doc, user) ==
    IF HasAccess(doc, user, AccessRead) THEN doc
    ELSE [id |-> doc.id, name |-> Hidden, content |-> Hidden,
          creatorId |-> Hidden, public |-> Hidden]

-----------------------------------------------------------------------------
(* The handlers *)

\* listGraphs: the text parameter is declared and received, and only
\* user, currentUser and the paging parameters reach the model's list.
ListGraphsResult(currentUser, userId, text) ==
    ModelList(userId, currentUser)

ListGraphsOutcome(currentUser, userId, text) ==
    IF userId # Absent /\ userId \notin Users
    THEN Failure(StatusInvalid, MsgInvalidId)
    ELSE Outcome(graphs, nextId, StatusOk, MsgNone,
                 {FilterModel(doc, currentUser) :
                    doc \in ListGraphsResult(currentUser, userId, text)})

CreateGraphOutcome(user, graph) ==
    IF user = Anon THEN Failure(StatusUnauthenticated, MsgLogin)
    ELSE IF ~HasKey(graph, "name") \/ ~HasKey(graph, "content")
    THEN Failure(StatusServerError, MsgKeyError)
    ELSE LET doc == ModelCreateGraph(graph, user)
         IN  Outcome([i \in DOMAIN graphs \cup {nextId} |->
                         IF i = nextId THEN doc ELSE graphs[i]],
                     nextId + 1, StatusOk, MsgNone, {doc})

\* modelParam('id', model='graph', plugin='cis', force=True)
GetGraphForce == TRUE

GetGraphOutcome(user, id) ==
    LET status == LoadStatus(id, user, AccessRead, GetGraphForce)
    IN  IF status # StatusOk THEN Failure(status, LoadMsg(status))
        ELSE Outcome(graphs, nextId, StatusOk, MsgNone,
                     {FilterModel(graphs[id], user)})

DeleteGraphOutcome(user, id) ==
    IF user = Anon THEN Failure(StatusUnauthenticated, MsgLogin)
    ELSE LET status == LoadStatus(id, user, AccessAdmin, FALSE)
         IN  IF status # StatusOk THEN Failure(status, LoadMsg(status))
             ELSE Outcome(ModelRemove(graphs[id]), nextId,
                          StatusOk, MsgNone, {})

\* Mutation of PublicDenied: the admin test with its `not` dropped.
PublicDeniedNotDropped(graph, user) ==
    HasKey(graph, "public") /\ Truthy(graph.public) /\ IsAdmin(user)

\* 'public' in graph and graph['public'] and not user['admin']
PublicDenied(graph, user) ==
    HasKey(graph, "public") /\ Truthy(graph.public) /\ ~IsAdmin(user)

\* Mutation of UpdatedGraphObj: the acting user is also written as creator.
UpdatedGraphObjRetagged(graphObj, graph, user) ==
    [graphObj EXCEPT
        !.name = graph.name,
        !.content = graph.content,
        !.creatorId = user,
        !.public = IF HasKey(graph, "public") THEN graph.public ELSE @]

\* The loaded copy after the handler's assignments: name and content
\* always, public when the body has the key.
UpdatedGraphObj(graphObj, graph, user) ==
    [graphObj EXCEPT
        !.name = graph.name,
        !.content = graph.content,
        !.public = IF HasKey(graph, "public") THEN graph.public ELSE @]

\* Mutation of UpdateGraphStore: name and content are saved before the
\* admin check.
UpdateGraphStoreSavedEarly(graphObj, graph, user) ==
    IF PublicDenied(graph, user)
    THEN ModelUpdateGraph([graphObj EXCEPT !.name = graph.name,
                                           !.content = graph.content])
    ELSE ModelUpdateGraph(UpdatedGraphObj(graphObj, graph, user))

\* The collection after the handler: the model's updateGraph is reached
\* only when the handler did not raise.
UpdateGraphStore(graphObj, graph, user) ==
    IF PublicDenied(graph, user) THEN graphs
    ELSE ModelUpdateGraph(UpdatedGraphObj(graphObj, graph, user))

UpdateGraphOutcome(user, id, graph) ==
    IF user = Anon THEN Failure(StatusUnauthenticated, MsgLogin)
    ELSE LET status == LoadStatus(id, user, AccessWrite, FALSE)
         IN  IF status # StatusOk THEN Failure(status, LoadMsg(status))
             ELSE IF ~HasKey(graph, "name") \/ ~HasKey(graph, "content")
             THEN Failure(StatusServerError, MsgKeyError)
             ELSE LET newGraphs == UpdateGraphStore(graphs[id], graph, user)
                  IN  IF PublicDenied(graph, user)
                      THEN Outcome(newGraphs, nextId, StatusForbidden,
                                   MsgNotAuthorizedPublic, {})
                      ELSE Outcome(newGraphs, nextId, StatusOk, MsgNone,
                                   {newGraphs[id]})

-----------------------------------------------------------------------------
(* CRUD actions: one request is answered at a time; Respond sends the    *)
(* response and drops the request context.                               *)

Answer(op, user, id, body, userId, text, out) ==
    /\ last = Idle
    /\ graphs' = out.graphs
    /\ nextId' = out.nextId
    /\ last' = Response(op, user, id, body, userId, text,
                        out.status, out.msg, out.result)
    /\ UNCHANGED <<procs, files, execCalls>>

listGraphs ==
    \E currentUser \in Callers, userId \in Users \cup {Absent, UnknownUserId},
       text \in Names \cup {Absent} :
        Answer("list", currentUser, 0, NoBody, userId, text,
               ListGraphsOutcome(currentUser, userId, text))

createGraph ==
    \E user \in Callers, graph \in Bodies :
        /\ nextId <= MaxGraphs
        /\ Answer("create", user, 0, graph, Absent, Absent,
                  CreateGraphOutcome(user, graph))

getGraph ==
    \E user \in Callers, id \in GraphIds :
        Answer("get", user, id, NoBody, Absent, Absent,
               GetGraphOutcome(user, id))

deleteGraph ==
    \E user \in Callers, id \in GraphIds :
        Answer("delete", user, id, NoBody, Absent, Absent,
               DeleteGraphOutcome(user, id))

updateGraph ==
    \E user \in Callers, id \in GraphIds, graph \in Bodies :
        Answer("update", user, id, graph, Absent, Absent,
               UpdateGraphOutcome(user, id, graph))

Respond ==
    /\ last # Idle
    /\ last' = Idle
    /\ UNCHANGED <<graphs, nextId, procs, files, execCalls>>

-----------------------------------------------------------------------------
(* The convert / execute pipeline: documents, YAML text, schema *)

Pids == 1..MaxRequests
TmpNames == 1..MaxRequests
NoFile == 0

Keys == {"connections", "models", "working_dir"}
KeyOrder == <<"connections", "models", "working_dir">>

NoDoc == [keys |-> {}, str |-> "none"]
NoText == <<>>

\* utils.fbpToCis: the execution-engine document of an FBP text; its
\* strings are the unicode strings of the JSON body.
fbpToCis(content) ==
    [keys |-> CASE content = "c1" -> {"models"}
                [] content = "c2" -> {"models", "connections"}
                [] OTHER -> {"connections"},
     str |-> "unicode"]

PipelineContents == {"c1", "c2", "c3"}

\* as_str(cisgraph, recurse=True, allow_pass=True)
as_str(doc) == [doc EXCEPT !.str = "str"]

\* yaml.safe_dump / pyaml.dump: one line per key, keys sorted.
Dump(doc) ==
    LET present == SelectSeq(KeyOrder, LAMBDA k : k \in doc.keys)
    IN  [i \in DOMAIN present |-> <<present[i], doc.str>>]

\* The YAML loader: text back to a document of plain strings.
Load(text) ==
    [keys |-> {text[i][1] : i \in DOMAIN text}, str |-> "str"]

\* prep_yaml(tmpfile.name): loads the file and records its directory.
prep_yaml(text) ==
    LET doc == Load(text)
    IN  [doc EXCEPT !.keys = @ \cup {"working_dir"}]

\* get_schema().normalize: fills in the schema's defaults.
Normalize(doc) == [doc EXCEPT !.keys = @ \cup {"connections"}]

\* get_schema().validate: does not raise.
Validates(doc) == "models" \in doc.keys

\* convertGraph: s.normalize(yml_prep), then s.validate(yml_norm)
ConvertGraphNorm(yml_prep) == Normalize(yml_prep)
ConvertGraphValid(yml_norm) == Validates(yml_norm)

\* Mutation of ExecuteGraphValid: the validation error is swallowed.
ExecuteGraphValidSwallowed(yml_norm) == TRUE

\* executeGraph: s.normalize(yml_prep), then s.validate(yml_norm)
ExecuteGraphNorm(yml_prep) == Normalize(yml_prep)
ExecuteGraphValid(yml_norm) == Validates(yml_norm)

\* Mutation of ConvertGraphResult: the normalized document is returned.
ConvertGraphResultNormalized(cisgraph, yml_norm) == Dump(yml_norm)

\* convertGraph: return pyaml.dump(cisgraph)
ConvertGraphResult(cisgraph, yml_norm) == Dump(cisgraph)

\* executeGraph: yaml_graph = pyaml.dump(cisgraph)
ExecuteGraphYaml(cisgraph, yml_norm) == Dump(cisgraph)

IdleProc ==
    [kind |-> "none", user |-> Anon, content |-> Absent, pc |-> "idle",
     cisgraph |-> NoDoc, tmp |-> NoFile, yml_prep |-> NoDoc,
     yml_norm |-> NoDoc, status |-> 0, result |-> NoText, steps |-> <<>>]

Done(proc, status, result) ==
    [proc EXCEPT !.pc = "done", !.status = status, !.result = result]

\* Mutation of FreshNames: the name is not checked against existing files.
FreshNamesUnchecked == TmpNames

\* tempfile.NamedTemporaryFile(delete=False): a name no file has.
FreshNames == TmpNames \ DOMAIN files

\* open file: the map with `name` bound to `file`
WithFile(name, file) ==
    [n \in DOMAIN files \cup {name} |-> IF n = name THEN file ELSE files[n]]

\* Mutation of Removed: the file is left in place.
RemovedNothing(name) == files

\* os.remove(tmpfile.name)
Removed(name) == [n \in DOMAIN files \ {name} |-> files[n]]

-----------------------------------------------------------------------------
(* Pipeline actions: the steps of one convertGraph / executeGraph request *)

\* The request arrives: the access decorator, then fbpToCis and as_str.
\* convertGraph is public and never asks for the current user; executeGraph
\* is refused to an anonymous caller before its body is read.
Start(p) ==
    /\ procs[p].pc = "idle"
    /\ \E kind \in {"convert", "execute"}, user \in {"alice", Anon},
          content \in PipelineContents :
        LET proc == [IdleProc EXCEPT !.kind = kind]
        IN  procs' = [procs EXCEPT ![p] =
                IF kind = "execute" /\ user = Anon
                THEN Done(proc, StatusUnauthenticated, NoText)
                ELSE [proc EXCEPT !.pc = "mktemp",
                                  !.user = IF kind = "execute" THEN user ELSE Anon,
                                  !.content = content,
                                  !.cisgraph = as_str(fbpToCis(content)),
                                  !.steps = <<"fbpToCis", "as_str">>]]
    /\ UNCHANGED <<graphs, nextId, last, files, execCalls>>

NamedTemporaryFile(p) ==
    /\ procs[p].pc = "mktemp"
    /\ \E name \in FreshNames :
        /\ files' = WithFile(name, [owner |-> p, text |-> NoText])
        /\ procs' = [procs EXCEPT ![p].pc = "dump", ![p].tmp = name,
                        ![p].steps = Append(@, "NamedTemporaryFile")]
    /\ UNCHANGED <<graphs, nextId, last, execCalls>>

SafeDump(p) ==
    /\ procs[p].pc = "dump"
    /\ files' = WithFile(procs[p].tmp,
                         [owner |-> p, text |-> Dump(procs[p].cisgraph)])
    /\ procs' = [procs EXCEPT ![p].pc = "prep",
                    ![p].steps = Append(@, "safe_dump")]
    /\ UNCHANGED <<graphs, nextId, last, execCalls>>

\* prep_yaml reads the file by name; it may raise (an I/O or YAML error),
\* which ends the request before the removal.
PrepYaml(p) ==
    /\ procs[p].pc = "prep"
    /\ procs[p].tmp \in DOMAIN files
    /\ \/ procs' = [procs EXCEPT ![p].pc = "remove",
                       ![p].yml_prep = prep_yaml(files[procs[p].tmp].text),
                       ![p].steps = Append(@, "prep_yaml")]
       \/ procs' = [procs EXCEPT ![p] =
                       Done(procs[p], StatusServerError, NoText)]
    /\ UNCHANGED <<graphs, nextId, last, files, execCalls>>

OsRemove(p) ==
    /\ procs[p].pc = "remove"
    /\ files' = Removed(procs[p].tmp)
    /\ procs' = [procs EXCEPT ![p].pc = "validate",
                    ![p].steps = Append(@, "os.remove")]
    /\ UNCHANGED <<graphs, nextId, last, execCalls>>

\* normalize, validate; a validation error ends the request with 400.
Validate(p) ==
    /\ procs[p].pc = "validate"
    /\ LET proc == procs[p]
           norm == IF proc.kind = "convert"
                   THEN ConvertGraphNorm(proc.yml_prep)
                   ELSE ExecuteGraphNorm(proc.yml_prep)
           valid == IF proc.kind = "convert"
                    THEN ConvertGraphValid(norm)
                    ELSE ExecuteGraphValid(norm)
           after == [proc EXCEPT !.yml_norm = norm,
                        !.steps = proc.steps \o <<"normalize", "validate">>]
       IN  procs' = [procs EXCEPT ![p] =
                IF valid THEN [after EXCEPT !.pc = "respond"]
                ELSE Done(after, StatusInvalid, NoText)]
    /\ UNCHANGED <<graphs, nextId, last, files, execCalls>>

\* convertGraph returns the YAML text; executeGraph hands it to execGraph.
Return(p) ==
    /\ procs[p].pc = "respond"
    /\ LET proc == procs[p]
       IN  IF proc.kind = "convert"
           THEN /\ procs' = [procs EXCEPT ![p] =
                        Done(proc, StatusOk,
                             ConvertGraphResult(proc.cisgraph, proc.yml_norm))]
                /\ UNCHANGED execCalls
           ELSE LET yaml_graph == ExecuteGraphYaml(proc.cisgraph, proc.yml_norm)
                IN  /\ execCalls' = execCalls \cup {<<p, yaml_graph, proc.user>>}
                    /\ procs' = [procs EXCEPT ![p] =
                            Done([proc EXCEPT !.steps = Append(@, "execGraph")],
                                 StatusOk, yaml_graph)]
    /\ UNCHANGED <<graphs, nextId, last, files>>

PipelineNext ==
    \E p \in Pids :
        \/ Start(p)
        \/ NamedTemporaryFile(p)
        \/ SafeDump(p)
        \/ PrepYaml(p)
        \/ OsRemove(p)
        \/ Validate(p)
        \/ Return(p)

-----------------------------------------------------------------------------

Init ==
    /\ graphs = <<>>
    /\ nextId = 1
    /\ last = Idle
    /\ procs = [p \in Pids |-> IdleProc]
    /\ files = <<>>
    /\ execCalls = {}

Next ==
    \/ listGraphs
    \/ createGraph
    \/ getGraph
    \/ deleteGraph
    \/ updateGraph
    \/ Respond

Spec == Init /\ [][Next]_vars

PipelineSpec == Init /\ [][PipelineNext]_vars

-----------------------------------------------------------------------------
(* Properties of the CRUD handlers *)

\* A step in which the handler of `op` answers a request.
Answers(op) == last = Idle /\ last'.op = op

\* An update of a stored graph by a logged-in non-administrator whose body
\* has public = true.
NonAdminPublicUpdate ==
    /\ Answers("update")
    /\ last'.id \in DOMAIN graphs
    /\ last'.user \in Users /\ ~IsAdmin(last'.user)
    /\ last'.body.public = "true"

PublicUnchanged(id) ==
    id \in DOMAIN graphs' /\ graphs'[id].public = graphs[id].public

\* C1 as stated: every update of a stored graph by a non-administrator
\* whose body contains public = true fails with 403 and leaves the stored
\* public field as it was.
C1_AsClaimed ==
    [][NonAdminPublicUpdate =>
        last'.status = StatusForbidden /\ PublicUnchanged(last'.id)]_vars

\* C1 amended: such an update fails and leaves the stored public field as
\* it was; it fails with 403, except that a user with write access whose
\* body lacks name or content gets the KeyError of the handler's first
\* assignments (500), raised before the admin check.
C1_NonAdminPublicUpdateFails ==
    [][NonAdminPublicUpdate =>
        /\ last'.status =
              IF /\ HasAccess(graphs[last'.id], last'.user, AccessWrite)
                 /\ ~(HasKey(last'.body, "name") /\ HasKey(last'.body, "content"))
              THEN StatusServerError ELSE StatusForbidden
        /\ PublicUnchanged(last'.id)]_vars

C1_Witness ==
    /\ last.op = "update"
    /\ last.user = "alice"
    /\ last.body.public = "true"
    /\ last.msg = MsgNotAuthorizedPublic
    /\ last.status = StatusForbidden
    /\ last.id \in DOMAIN graphs
    /\ graphs[last.id].public = "false"

\* C2 as stated: getGraph of a stored graph by a caller who has no read
\* access to it (the graph not public) fails with a permission error and
\* returns no record.
C2_AsClaimed ==
    (/\ last.op = "get"
     /\ last.id \in DOMAIN graphs
     /\ ~HasAccess(graphs[last.id], last.user, AccessRead))
    => (/\ last.status \in {StatusForbidden, StatusUnauthenticated}
        /\ last.result = {})

\* C4: a stored graph becomes public = true (is created so, or changed to
\* it) only in a step that answers a create or update request of an
\* administrator for that graph.
C4_PublicOnlyByAdmin ==
    [][\A id \in GraphIds :
        (/\ id \in DOMAIN graphs'
         /\ graphs'[id].public = "true"
         /\ ~(id \in DOMAIN graphs /\ graphs[id].public = "true"))
        => (/\ Answers("create") \/ Answers("update")
            /\ IsAdmin(last'.user)
            /\ last'.body.public = "true"
            /\ graphs'[id] \in last'.result)]_vars

C4_Witness ==
    /\ \E id \in DOMAIN graphs : graphs[id].public = "true"
    /\ last.op = "create"
    /\ last.user = "alice"
    /\ last.body.public = "true"
    /\ last.status = StatusOk
    /\ \A d \in last.result : d.public = "false" /\ graphs[d.id] = d

\* C5: a graph created by user U is stored with creatorId = U, and no step
\* (an update by any user with any body, successful or failing, included)
\* changes the creatorId of a stored graph.
C5_CreatorIdImmutable ==
    [][/\ (Answers("create") /\ last'.status = StatusOk) =>
            \A d \in last'.result :
                /\ d.creatorId = last'.user
                /\ d.id \notin DOMAIN graphs
                /\ d.id \in DOMAIN graphs' /\ graphs'[d.id] = d
       /\ \A id \in DOMAIN graphs \cap DOMAIN graphs' :
            graphs'[id].creatorId = graphs[id].creatorId]_vars

C5_Witness ==
    /\ last.op = "update"
    /\ last.status = StatusOk
    /\ last.id \in DOMAIN graphs
    /\ graphs[last.id].creatorId = "alice"
    /\ last.user = "root"
    /\ graphs[last.id].name = last.body.name

\* C7 as stated: a successful listGraphs returns only graphs visible to the
\* current user, only graphs of the creator when a userId is given, and
\* only graphs whose name matches when a text is given.
C7_AsClaimed ==
    (last.op = "list" /\ last.status = StatusOk) =>
        \A d \in last.result :
            /\ HasAccess(d, last.user, AccessRead)
            /\ last.userId # Absent => d.creatorId = last.userId
            /\ last.text # Absent => d.name = last.text

\* C10: an update that fails with the 403 'Not authorized to create public
\* graphs' leaves the whole collection as it was, name and content of the
\* target included, and a getGraph by a reader returns the stored record.
C10_DeniedUpdateStoresNothing ==
    [][/\ (/\ Answers("update")
           /\ last'.status = StatusForbidden
           /\ last'.msg = MsgNotAuthorizedPublic) => graphs' = graphs
       /\ (/\ Answers("get")
           /\ last'.status = StatusOk
           /\ HasAccess(graphs[last'.id], last'.user, AccessRead)) =>
            last'.result = {graphs[last'.id]}]_vars

C10_Witness ==
    /\ last.op = "update"
    /\ last.status = StatusForbidden
    /\ last.msg = MsgNotAuthorizedPublic
    /\ last.id \in DOMAIN graphs
    /\ graphs[last.id].name # last.body.name
    /\ graphs[last.id].content # last.body.content

-----------------------------------------------------------------------------
(* Properties of the convert / execute pipeline *)

InFlightWithFile(p) == procs[p].pc \in {"dump", "prep", "remove"}

OwnsFile(p) == \E n \in DOMAIN files : files[n].owner = p

\* The request has been through schema validation.
Validated(p) ==
    \E i \in DOMAIN procs[p].steps : procs[p].steps[i] = "validate"

\* Position of a step in the request's trace (0: not taken).
StepIndex(p, step) ==
    IF \E i \in DOMAIN procs[p].steps : procs[p].steps[i] = step
    THEN CHOOSE i \in DOMAIN procs[p].steps : procs[p].steps[i] = step
    ELSE 0

\* The steps up to and including validation.
ValidationSteps(p) == SubSeq(procs[p].steps, 1, StepIndex(p, "validate"))

\* C3: execGraph is called only for an executeGraph request whose
\* normalized graph validated, after the validation; an executeGraph
\* request whose graph fails validation ends with 400 and no execGraph
\* call; and the steps up to validation, and their verdict on the same
\* content, are those of convertGraph.
C3_ExecuteOnlyAfterValidation ==
    /\ \A c \in execCalls :
        /\ procs[c[1]].kind = "execute"
        /\ Validates(Normalize(procs[c[1]].yml_prep))
        /\ 0 < StepIndex(c[1], "validate")
        /\ StepIndex(c[1], "validate") < StepIndex(c[1], "execGraph")
    /\ \A p \in Pids :
        (/\ procs[p].kind = "execute"
         /\ Validated(p)
         /\ ~Validates(Normalize(procs[p].yml_prep)))
        => (/\ procs[p].pc = "done"
            /\ procs[p].status = StatusInvalid
            /\ \A c \in execCalls : c[1] # p)
    /\ \A p, q \in Pids :
        (/\ procs[p].kind = "execute" /\ Validated(p)
         /\ procs[q].kind = "convert" /\ Validated(q))
        => (/\ ValidationSteps(p) = ValidationSteps(q)
            /\ procs[p].content = procs[q].content =>
                 /\ procs[p].yml_norm = procs[q].yml_norm
                 /\ (procs[p].status = StatusInvalid)
                        <=> (procs[q].status = StatusInvalid))

C3_Witness ==
    \E p, q \in Pids :
        /\ procs[p].kind = "execute" /\ procs[p].pc = "done"
        /\ procs[p].status = StatusInvalid
        /\ procs[q].kind = "execute" /\ procs[q].pc = "done"
        /\ procs[q].status = StatusOk
        /\ \E c \in execCalls : c[1] = q

ConvertSucceeded(p) ==
    /\ procs[p].kind = "convert"
    /\ procs[p].pc = "done"
    /\ procs[p].status = StatusOk

\* C6 as stated: the text a successful convertGraph returns is the
\* serialization of the normalized, validated document.
C6_AsClaimed ==
    \A p \in Pids :
        ConvertSucceeded(p) => procs[p].result = Dump(procs[p].yml_norm)

\* C6 amended: the text a successful convertGraph returns is the
\* serialization of the conversion output (fbpToCis, then as_str); the
\* normalized document is the one validated, and is not what is returned.
C6_ReturnsConversionOutput ==
    \A p \in Pids :
        ConvertSucceeded(p) =>
            /\ procs[p].result = Dump(as_str(fbpToCis(procs[p].content)))
            /\ procs[p].yml_norm = Normalize(procs[p].yml_prep)
            /\ Validates(procs[p].yml_norm)

C6_Witness ==
    \E p \in Pids :
        /\ ConvertSucceeded(p)
        /\ procs[p].content = "c1"
        /\ Load(procs[p].result) # procs[p].yml_norm

\* C8: requests holding a temporary file hold files of distinct names, each
\* its own; a request reads back exactly what it wrote; a request that
\* returned successfully has left no file; and once every request has
\* returned successfully the temporary directory is empty.
C8_TemporaryFilesDoNotCollide ==
    /\ \A p, q \in Pids :
        (p # q /\ InFlightWithFile(p) /\ InFlightWithFile(q))
        => procs[p].tmp # procs[q].tmp
    /\ \A p \in Pids :
        /\ InFlightWithFile(p) =>
            /\ procs[p].tmp \in DOMAIN files
            /\ files[procs[p].tmp].owner = p
        /\ procs[p].pc \in {"remove", "validate", "respond"} =>
            procs[p].yml_prep = prep_yaml(Dump(procs[p].cisgraph))
        /\ (procs[p].pc = "done" /\ procs[p].status = StatusOk) =>
            ~OwnsFile(p)
    /\ (\A p \in Pids : procs[p].pc = "done" /\ procs[p].status = StatusOk)
        => files = <<>>

C8_Witness ==
    /\ \E p, q \in Pids :
        /\ procs[p].pc = "done" /\ procs[p].status = StatusOk
        /\ procs[p].tmp # NoFile
        /\ procs[q].pc = "remove"
        /\ procs[q].tmp = procs[p].tmp
        /\ files[procs[q].tmp].owner = q

\* A request that ended because schema validation threw.
ValidationFailed(p) ==
    /\ procs[p].pc = "done"
    /\ procs[p].status = StatusInvalid

\* C9 as stated: a request that ended because schema validation threw has
\* left its temporary file on the filesystem.
C9_AsClaimed ==
    \A p \in Pids : ValidationFailed(p) => OwnsFile(p)

\* C9 amended: the file is removed before normalization and validation, so
\* a request that ended because validation threw has left no file; a file
\* outlives its request only when prep_yaml raised, before the removal.
C9_ValidationFailureLeavesNoFile ==
    /\ \A p \in Pids :
        ValidationFailed(p) =>
            /\ ~OwnsFile(p)
            /\ 0 < StepIndex(p, "os.remove")
            /\ StepIndex(p, "os.remove") < StepIndex(p, "validate")
    /\ \A n \in DOMAIN files :
        \/ InFlightWithFile(files[n].owner) /\ procs[files[n].owner].tmp = n
        \/ /\ procs[files[n].owner].pc = "done"
           /\ procs[files[n].owner].status = StatusServerError

C9_Witness ==
    \E p, q \in Pids :
        /\ ValidationFailed(p) /\ procs[p].kind = "convert" /\ ~OwnsFile(p)
        /\ procs[q].pc = "done" /\ procs[q].status = StatusServerError
        /\ OwnsFile(q)

====
